---- MODULE Spec2Model ----
(***************************************************************************)
(* A model of tensorrt_llm/executor/utils.py:                              *)
(*   - IntraProcessQueue (put / get / close / poll) used by producer       *)
(*     threads and consumer threads of one process;                        *)
(*   - ProcessPoolExecutorSession (submit / submit_sync) on top of a       *)
(*     process pool with a shared work queue;                              *)
(*   - create_mpi_comm_session and the two environment getters;            *)
(*   - the WorkerCommIpcAddrs record;                                      *)
(*   - ExecutorResponse, its two kinds of error, and the coordinator's     *)
(*     dispatch of the responses it drains from the result channel.       *)
(* Each part has its own specification (SpecQueue, LiveQueue, SpecPool,    *)
(* SpecSession, SpecAddrs, SpecDrain); the variables of the other parts    *)
(* stay at their initial values.                                           *)
(***************************************************************************)
EXTENDS Integers, Sequences, FiniteSets

VARIABLES
    queue,      \* IntraProcessQueue.queue: the items of the queue.Queue, oldest first
    pc,         \* per consumer thread: "idle", "get_wait", "poll_wait", "poll_put"
    tmo,        \* per consumer thread: the timeout argument of the call in progress
    item,       \* per consumer thread: the local `item` of poll
    ret,        \* per consumer thread: the outcome of its last completed call
    snap,       \* history: the queue as poll found it (<<>>: none, or disturbed since)
    putLog,     \* history: every item put, in the order of the puts
    getLog,     \* history: every item returned by get, in the order returned
    atClose,    \* history: the consumers close() found blocked in get on the empty queue
    n_workers,  \* ProcessPoolExecutorSession.n_workers
    futures,    \* the futures the pool has created, in submission order
    cpc,        \* the caller of the session: "idle" or "sync_wait"
    cidx,       \* submit_sync: the index (within the call) of the future being awaited
    cres,       \* the outcome of the caller's last completed call
    shut,       \* whether shutdown() has been called on the pool
    envFlag,    \* os.environ["TLLM_SPAWN_PROXY_PROCESS"]
    envAddr,    \* os.environ["TLLM_SPAWN_PROXY_PROCESS_IPC_ADDR"]
    session,    \* the outcome of the last create_mpi_comm_session call
    constructed,\* history: the session objects constructed so far
    addrs,      \* the last WorkerCommIpcAddrs constructed
    chan,       \* the result channel: the responses put and not yet drained
    delivered,  \* per client_id: the responses its consumer has received
    outstanding,\* the client_ids whose consumer is registered and not finished
    running,    \* whether the coordinator's drain loop is running
    nemit       \* number of responses the workers have emitted

qvars == <<queue, pc, tmo, item, ret, snap, putLog, getLog, atClose>>
pvars == <<n_workers, futures, cpc, cidx, cres, shut>>
svars == <<envFlag, envAddr, session, constructed>>
avars == <<addrs>>
dvars == <<chan, delivered, outstanding, running, nemit>>
vars == <<qvars, pvars, svars, avars, dvars>>

----------------------------------------------------------------------------
(* Bounds of the model *)

\* items put on the queue, all producers together
MaxPuts == 2
\* largest n_workers a session is constructed with
MaxWorkers == 3
\* futures one pool creates, all calls together
MaxFutures == 4
\* responses the workers emit
MaxResponses == 3

Producers == {"w1", "w2"}
Consumers == {"coord", "aux"}
\* timeout=None and a finite timeout
Timeouts == {"None", "finite"}

\* Python's None
None == "<None>"

----------------------------------------------------------------------------
(* IntraProcessQueue *)

NoItem == <<"-", 0>>
\* outcomes of a call: "none" (no call yet), "item" (get returned an item),
\* "Empty" (get raised Empty), "True" and "False" (poll returned)
NoRet == "none"

\* the parts of the module that a queue operation leaves alone
QFrame == UNCHANGED <<n_workers, futures, cpc, cidx, cres, shut, envFlag, envAddr,
                      session, constructed, addrs, chan, delivered, outstanding,
                      running, nemit>>

\* how many items producer p has put
NPut(p) == Cardinality({i \in 1 .. Len(putLog) : putLog[i][1] = p})

\* queue.Queue.put: append at the tail
QueuePut(q, x) == Append(q, x)

\* queue.Queue.get on a non-empty queue: the head is removed and returned
QueueGetItem(q) == Head(q)
QueueGetRest(q) == Tail(q)

\* poll without line 148: the removed item is not put back
PollPutBack_Drop(q, x) == q

\* poll, line 148: the removed item is put back with Queue.put
PollPutBack(q, x) == QueuePut(q, x)

\* a change of the queue by thread c disturbs the polls of the other threads
Disturb(c) == [d \in Consumers |-> IF d = c THEN snap[d] ELSE <<>>]

QInit ==
    /\ queue = <<>>
    /\ pc = [c \in Consumers |-> "idle"]
    /\ tmo = [c \in Consumers |-> "None"]
    /\ item = [c \in Consumers |-> NoItem]
    /\ ret = [c \in Consumers |-> NoRet]
    /\ snap = [c \in Consumers |-> <<>>]
    /\ putLog = <<>>
    /\ getLog = <<>>
    /\ atClose = {}

\* IntraProcessQueue.put(obj), called by producer thread p with its next item
Put(p) ==
    /\ Len(putLog) < MaxPuts
    /\ LET x == <<p, NPut(p) + 1>> IN
        /\ queue' = QueuePut(queue, x)
        /\ putLog' = Append(putLog, x)
    /\ snap' = Disturb("-")
    /\ UNCHANGED <<pc, tmo, item, ret, getLog, atClose>>
    /\ QFrame

\* IntraProcessQueue.get(timeout=t): the call starts
GetCall(c, t) ==
    /\ pc[c] = "idle"
    /\ pc' = [pc EXCEPT ![c] = "get_wait"]
    /\ tmo' = [tmo EXCEPT ![c] = t]
    /\ UNCHANGED <<queue, item, ret, snap, putLog, getLog, atClose>>
    /\ QFrame

\* get returns the head of the queue
GetReturn(c) ==
    /\ pc[c] = "get_wait"
    /\ queue # <<>>
    /\ ret' = [ret EXCEPT ![c] = "item"]
    /\ getLog' = Append(getLog, QueueGetItem(queue))
    /\ queue' = QueueGetRest(queue)
    /\ pc' = [pc EXCEPT ![c] = "idle"]
    /\ snap' = Disturb(c)
    /\ atClose' = atClose \ {c}
    /\ tmo' = [tmo EXCEPT ![c] = "None"]
    /\ UNCHANGED <<item, putLog>>
    /\ QFrame

\* get as a non-blocking get: Empty is raised on the empty queue whatever the timeout
GetTimeout_NoBlock(c) ==
    /\ pc[c] = "get_wait"
    /\ queue = <<>>
    /\ ret' = [ret EXCEPT ![c] = "Empty"]
    /\ pc' = [pc EXCEPT ![c] = "idle"]
    /\ atClose' = atClose \ {c}
    /\ tmo' = [tmo EXCEPT ![c] = "None"]
    /\ UNCHANGED <<queue, item, snap, putLog, getLog>>
    /\ QFrame

\* get raises Empty: the timeout ran out with the queue still empty
GetTimeout(c) ==
    /\ pc[c] = "get_wait"
    /\ tmo[c] = "finite"
    /\ queue = <<>>
    /\ ret' = [ret EXCEPT ![c] = "Empty"]
    /\ pc' = [pc EXCEPT ![c] = "idle"]
    /\ atClose' = atClose \ {c}
    /\ tmo' = [tmo EXCEPT ![c] = "None"]
    /\ UNCHANGED <<queue, item, snap, putLog, getLog>>
    /\ QFrame

\* IntraProcessQueue.close(): pass
Close ==
    /\ atClose' = atClose \cup {c \in Consumers : pc[c] = "get_wait" /\ queue = <<>>}
    /\ UNCHANGED <<queue, pc, tmo, item, ret, snap, putLog, getLog>>
    /\ QFrame

\* IntraProcessQueue.poll(timeout=t): the call starts
PollCall(c, t) ==
    /\ pc[c] = "idle"
    /\ pc' = [pc EXCEPT ![c] = "poll_wait"]
    /\ tmo' = [tmo EXCEPT ![c] = t]
    /\ UNCHANGED <<queue, item, ret, snap, putLog, getLog, atClose>>
    /\ QFrame

\* poll, line 146: item = self.queue.get(timeout=timeout) finds an item
PollGet(c) ==
    /\ pc[c] = "poll_wait"
    /\ queue # <<>>
    /\ item' = [item EXCEPT ![c] = QueueGetItem(queue)]
    /\ queue' = QueueGetRest(queue)
    /\ pc' = [pc EXCEPT ![c] = "poll_put"]
    /\ snap' = [Disturb(c) EXCEPT ![c] = queue]
    /\ UNCHANGED <<tmo, ret, putLog, getLog, atClose>>
    /\ QFrame

\* poll, lines 148-149: self.queue.put(item); return True
PollPut(c) ==
    /\ pc[c] = "poll_put"
    /\ queue' = PollPutBack(queue, item[c])
    /\ ret' = [ret EXCEPT ![c] = "True"]
    /\ item' = [item EXCEPT ![c] = NoItem]
    /\ pc' = [pc EXCEPT ![c] = "idle"]
    /\ snap' = [d \in Consumers |-> <<>>]
    /\ tmo' = [tmo EXCEPT ![c] = "None"]
    /\ UNCHANGED <<putLog, getLog, atClose>>
    /\ QFrame

\* poll whose inner get raises Empty although the queue holds an item
PollEmpty_Spurious(c) ==
    /\ pc[c] = "poll_wait"
    /\ tmo[c] = "finite"
    /\ ret' = [ret EXCEPT ![c] = "False"]
    /\ pc' = [pc EXCEPT ![c] = "idle"]
    /\ tmo' = [tmo EXCEPT ![c] = "None"]
    /\ UNCHANGED <<queue, item, snap, putLog, getLog, atClose>>
    /\ QFrame

\* poll, lines 150-152: the inner get raised Empty; return False
PollEmpty(c) ==
    /\ pc[c] = "poll_wait"
    /\ tmo[c] = "finite"
    /\ queue = <<>>
    /\ ret' = [ret EXCEPT ![c] = "False"]
    /\ pc' = [pc EXCEPT ![c] = "idle"]
    /\ tmo' = [tmo EXCEPT ![c] = "None"]
    /\ UNCHANGED <<queue, item, snap, putLog, getLog, atClose>>
    /\ QFrame

QNext ==
    \/ \E p \in Producers : Put(p)
    \/ \E c \in Consumers, t \in Timeouts : GetCall(c, t)
    \/ \E c \in Consumers : GetReturn(c)
    \/ \E c \in Consumers : GetTimeout(c)
    \/ Close
    \/ \E c \in Consumers, t \in Timeouts : PollCall(c, t)
    \/ \E c \in Consumers : PollGet(c)
    \/ \E c \in Consumers : PollPut(c)
    \/ \E c \in Consumers : PollEmpty(c)

----------------------------------------------------------------------------
(* ProcessPoolExecutorSession *)

Tasks == {"t1", "t2"}
Workers == 1 .. n_workers

\* the parts of the module that a pool operation leaves alone
PFrame == UNCHANGED <<queue, pc, tmo, item, ret, snap, putLog, getLog, atClose,
                      envFlag, envAddr, session, constructed, addrs,
                      chan, delivered, outstanding, running, nemit>>

\* number of submit / submit_sync calls made so far
NCalls == IF futures = <<>> THEN 0 ELSE futures[Len(futures)].call

NoRes == [kind |-> "none", call |-> 0, task |-> "-", vals |-> <<>>]

\* a future of the pool: the call that made it, its task, its state
\* ("pending", "running", "ok", "exc"), the worker process that ran it
NewFuture(k, task) == [call |-> k, task |-> task, state |-> "pending", by |-> 0]

\* SubmitAll with the range off by one: range(self.n_workers + 1)
SubmitAll_OffByOne(k, task, n) == [i \in 1 .. n + 1 |-> NewFuture(k, task)]

\* [self.mpi_pool.submit(task, *args, **kwargs) for i in range(self.n_workers)]
SubmitAll(k, task, n) == [i \in 1 .. n |-> NewFuture(k, task)]

\* the indices (into futures) of the futures of call k, in submission order
CallFutures(k) ==
    LET S == {i \in 1 .. Len(futures) : futures[i].call = k}
        F[j \in 0 .. Cardinality(S)] ==
            IF j = 0 THEN <<>>
            ELSE LET m == CHOOSE i \in S : Cardinality({x \in S : x < i}) = j - 1
                 IN Append(F[j - 1], m)
    IN F[Cardinality(S)]

Resolved(f) == f.state \in {"ok", "exc"}

PInit ==
    /\ n_workers \in 1 .. MaxWorkers
    /\ futures = <<>>
    /\ cpc = "idle"
    /\ cidx = 0
    /\ cres = NoRes
    /\ shut = FALSE

\* ProcessPoolExecutorSession.submit(task): one future per worker, returned as handles
Submit(task) ==
    /\ cpc = "idle"
    /\ ~shut
    /\ Len(futures) + n_workers <= MaxFutures
    /\ futures' = futures \o SubmitAll(NCalls + 1, task, n_workers)
    /\ cres' = [kind |-> "handles", call |-> NCalls + 1, task |-> task,
                vals |-> [i \in 1 .. Len(SubmitAll(NCalls + 1, task, n_workers)) |->
                            Len(futures) + i]]
    /\ UNCHANGED <<n_workers, cpc, cidx, shut>>
    /\ PFrame

\* ProcessPoolExecutorSession.submit_sync(task), lines 83-86: the futures are created
SubmitSync(task) ==
    /\ cpc = "idle"
    /\ ~shut
    /\ Len(futures) + n_workers <= MaxFutures
    /\ futures' = futures \o SubmitAll(NCalls + 1, task, n_workers)
    /\ cpc' = "sync_wait"
    /\ cidx' = 1
    /\ cres' = [kind |-> "waiting", call |-> NCalls + 1, task |-> task, vals |-> <<>>]
    /\ UNCHANGED <<n_workers, shut>>
    /\ PFrame

\* submit_sync, line 87: future.result() of the next future returns its result;
\* after the last one the list is returned
SyncResult ==
    /\ cpc = "sync_wait"
    /\ LET fs == CallFutures(cres.call)
           f == futures[fs[cidx]]
       IN /\ f.state = "ok"
          /\ IF cidx = Len(fs)
             THEN /\ cres' = [cres EXCEPT !.kind = "results", !.vals = Append(@, f.by)]
                  /\ cpc' = "idle"
                  /\ cidx' = 0
             ELSE /\ cres' = [cres EXCEPT !.vals = Append(@, f.by)]
                  /\ cidx' = cidx + 1
                  /\ cpc' = cpc
    /\ UNCHANGED <<n_workers, futures, shut>>
    /\ PFrame

\* submit_sync raising as soon as any future of the call has failed, in the order
\* of completion instead of the order of submission
SyncRaise_AnyFailed ==
    /\ cpc = "sync_wait"
    /\ \E i \in 1 .. Len(futures) :
        /\ futures[i].call = cres.call
        /\ futures[i].state = "exc"
        /\ cres' = [cres EXCEPT !.kind = "raised", !.vals = <<i>>]
    /\ cpc' = "idle"
    /\ cidx' = 0
    /\ UNCHANGED <<n_workers, futures, shut>>
    /\ PFrame

\* submit_sync, line 87: future.result() re-raises the exception of the task;
\* it leaves the comprehension and submit_sync
SyncRaise ==
    /\ cpc = "sync_wait"
    /\ LET fs == CallFutures(cres.call)
           f == futures[fs[cidx]]
       IN /\ f.state = "exc"
          /\ cres' = [cres EXCEPT !.kind = "raised", !.vals = <<fs[cidx]>>]
    /\ cpc' = "idle"
    /\ cidx' = 0
    /\ UNCHANGED <<n_workers, futures, shut>>
    /\ PFrame

\* a worker process of the pool is idle when it runs no future
Idle(w) == \A i \in 1 .. Len(futures) : ~(futures[i].state = "running" /\ futures[i].by = w)

\* the pool's work queue is shared: an idle worker process takes the oldest pending item
WorkerStart(w) ==
    /\ w \in Workers
    /\ Idle(w)
    /\ \E i \in 1 .. Len(futures) :
        /\ futures[i].state = "pending"
        /\ \A j \in 1 .. i - 1 : futures[j].state # "pending"
        /\ futures' = [futures EXCEPT ![i].state = "running", ![i].by = w]
    /\ UNCHANGED <<n_workers, cpc, cidx, cres, shut>>
    /\ PFrame

\* the task returns (ok = TRUE) or raises in worker process w: the future is resolved
WorkerFinish(w, ok) ==
    /\ w \in Workers
    /\ \E i \in 1 .. Len(futures) :
        /\ futures[i].state = "running"
        /\ futures[i].by = w
        /\ futures' = [futures EXCEPT ![i].state = IF ok THEN "ok" ELSE "exc"]
    /\ UNCHANGED <<n_workers, cpc, cidx, cres, shut>>
    /\ PFrame

\* submit or submit_sync after shutdown: the first self.mpi_pool.submit raises
\* RuntimeError and no future is created
SubmitAfterShutdown(task) ==
    /\ cpc = "idle"
    /\ shut
    /\ cres' = [kind |-> "RuntimeError", call |-> 0, task |-> task, vals |-> <<>>]
    /\ UNCHANGED <<n_workers, futures, cpc, cidx, shut>>
    /\ PFrame

\* shutdown with wait=True: it returns only once every future is resolved
Shutdown_WaitTrue ==
    /\ cpc = "idle"
    /\ \A i \in 1 .. Len(futures) : Resolved(futures[i])
    /\ shut' = TRUE
    /\ UNCHANGED <<n_workers, futures, cpc, cidx, cres>>
    /\ PFrame

\* ProcessPoolExecutorSession.shutdown(): self.mpi_pool.shutdown(wait=False) marks
\* the pool shut down and returns; the work already submitted is still executed
Shutdown ==
    /\ cpc = "idle"
    /\ shut' = TRUE
    /\ UNCHANGED <<n_workers, futures, cpc, cidx, cres>>
    /\ PFrame

PNext ==
    \/ \E task \in Tasks : Submit(task)
    \/ \E task \in Tasks : SubmitSync(task)
    \/ SyncResult
    \/ SyncRaise
    \/ \E w \in 1 .. MaxWorkers : WorkerStart(w)
    \/ \E w \in 1 .. MaxWorkers, ok \in BOOLEAN : WorkerFinish(w, ok)
    \/ \E task \in Tasks : SubmitAfterShutdown(task)
    \/ Shutdown

----------------------------------------------------------------------------
(* create_mpi_comm_session *)

\* values of the environment variable TLLM_SPAWN_PROXY_PROCESS (None: not set)
FlagValues == {None, "", "0", "1"}
\* values of the environment variable TLLM_SPAWN_PROXY_PROCESS_IPC_ADDR
AddrValues == {None, "", "ipc:///tmp/a", "ipc:///tmp/b"}

\* os.getenv("TLLM_SPAWN_PROXY_PROCESS_IPC_ADDR")
get_spawn_proxy_process_ipc_addr_env == envAddr

\* os.getenv("TLLM_SPAWN_PROXY_PROCESS") == "1"
get_spawn_proxy_process_env == envFlag = "1"

\* Python's truth value of a str | None
Truthy(s) == s # None /\ s # ""

\* the parts of the module that session creation leaves alone
SFrame == UNCHANGED <<queue, pc, tmo, item, ret, snap, putLog, getLog, atClose,
                      n_workers, futures, cpc, cidx, cres, shut, addrs,
                      chan, delivered, outstanding, running, nemit>>

NoSession == [kind |-> "none", addr |-> None, n_workers |-> 0]

\* create_mpi_comm_session choosing the backend by the address instead of the flag
create_mpi_comm_session_ByAddr(n) ==
    IF Truthy(get_spawn_proxy_process_ipc_addr_env)
    THEN [kind |-> "RemoteMpiCommSessionClient",
          addr |-> get_spawn_proxy_process_ipc_addr_env, n_workers |-> 0]
    ELSE IF get_spawn_proxy_process_env
         THEN [kind |-> "AssertionError", addr |-> None, n_workers |-> 0]
         ELSE [kind |-> "MpiCommSession", addr |-> None, n_workers |-> n]

\* create_mpi_comm_session without the assert of lines 40-41
create_mpi_comm_session_NoAssert(n) ==
    IF get_spawn_proxy_process_env
    THEN [kind |-> "RemoteMpiCommSessionClient",
          addr |-> get_spawn_proxy_process_ipc_addr_env, n_workers |-> 0]
    ELSE [kind |-> "MpiCommSession", addr |-> None, n_workers |-> n]

\* the value create_mpi_comm_session(n) returns, or the AssertionError it raises
create_mpi_comm_session(n) ==
    IF get_spawn_proxy_process_env
    THEN IF ~Truthy(get_spawn_proxy_process_ipc_addr_env)
         THEN [kind |-> "AssertionError", addr |-> None, n_workers |-> 0]
         ELSE [kind |-> "RemoteMpiCommSessionClient",
               addr |-> get_spawn_proxy_process_ipc_addr_env, n_workers |-> 0]
    ELSE [kind |-> "MpiCommSession", addr |-> None, n_workers |-> n]

SessionKinds == {"RemoteMpiCommSessionClient", "MpiCommSession"}

SInit ==
    /\ envFlag \in FlagValues
    /\ envAddr \in AddrValues
    /\ session = NoSession
    /\ constructed = {}

\* the environment of the process is changed between two calls
SetEnv(f, a) ==
    /\ envFlag' = f
    /\ envAddr' = a
    /\ UNCHANGED <<session, constructed>>
    /\ SFrame

\* a call of create_mpi_comm_session(n)
CreateSession(n) ==
    /\ session' = create_mpi_comm_session(n)
    /\ constructed' = IF create_mpi_comm_session(n).kind \in SessionKinds
                      THEN constructed \cup {create_mpi_comm_session(n)}
                      ELSE constructed
    /\ UNCHANGED <<envFlag, envAddr>>
    /\ SFrame

SNext ==
    \/ \E f \in FlagValues, a \in AddrValues : SetEnv(f, a)
    \/ \E n \in 1 .. MaxWorkers : CreateSession(n)

----------------------------------------------------------------------------
(* WorkerCommIpcAddrs *)

\* address strings a caller may pass
AddrStrings == {"", "ipc:///tmp/x", "ipc:///tmp/y"}

NoAddrs == [request_queue_addr |-> None, request_error_queue_addr |-> None,
            result_queue_addr |-> None, stats_queue_addr |-> None,
            kv_cache_events_queue_addr |-> None]

\* WorkerCommIpcAddrs(a1, a2, a3, a4, a5): a NamedTuple stores its five fields
WorkerCommIpcAddrs(a1, a2, a3, a4, a5) ==
    [request_queue_addr |-> a1, request_error_queue_addr |-> a2,
     result_queue_addr |-> a3, stats_queue_addr |-> a4,
     kv_cache_events_queue_addr |-> a5]

AInit == addrs = NoAddrs

\* a WorkerCommIpcAddrs is constructed
Construct(a1, a2, a3, a4, a5) ==
    /\ addrs' = WorkerCommIpcAddrs(a1, a2, a3, a4, a5)
    /\ UNCHANGED <<queue, pc, tmo, item, ret, snap, putLog, getLog, atClose,
                   n_workers, futures, cpc, cidx, cres, shut,
                   envFlag, envAddr, session, constructed,
                   chan, delivered, outstanding, running, nemit>>

ANext ==
    \E a1 \in AddrStrings, a2 \in AddrStrings, a3 \in AddrStrings,
       a4 \in AddrStrings, a5 \in AddrStrings : Construct(a1, a2, a3, a4, a5)

----------------------------------------------------------------------------
(* ExecutorResponse and its dispatch *)

ClientIds == {"client1", "client2"}

\* the values of ExecutorResponse.error: None, a str, an Exception
NoError == [type |-> "NoneType", what |-> ""]
ErrorValues == {NoError,
                [type |-> "str", what |-> "request failed"],
                [type |-> "Exception", what |-> "worker died"]}

\* ExecutorResponse: the fields the dispatch reads (is_final only matters without error)
ExecutorResponse(c, e, f) == [client_id |-> c, error |-> e, is_final |-> f]
Responses ==
    {ExecutorResponse(c, e, f) : c \in ClientIds, e \in ErrorValues, f \in BOOLEAN}

\* error kind 1, lines 117-118: a str is a per-request error and does not stop the service
IsRequestError(e) == e.type = "str"

\* every error taken as one that stops the service
IsFatalError_AnyError(e) == e.type # "NoneType"

\* error kind 2, lines 119-120: an Exception stops the whole service
IsFatalError(e) == e.type = "Exception"

\* the parts of the module that the dispatch leaves alone
DFrame == UNCHANGED <<queue, pc, tmo, item, ret, snap, putLog, getLog, atClose,
                      n_workers, futures, cpc, cidx, cres, shut,
                      envFlag, envAddr, session, constructed, addrs>>

DInit ==
    /\ chan = <<>>
    /\ delivered = [c \in ClientIds |-> <<>>]
    /\ outstanding = {}
    /\ running = TRUE
    /\ nemit = 0

\* a request of client c is accepted: its consumer is registered
Register(c) ==
    /\ running
    /\ c \notin outstanding
    /\ outstanding' = outstanding \cup {c}
    /\ UNCHANGED <<chan, delivered, running, nemit>>
    /\ DFrame

\* a worker puts response r on the result channel
Emit(r) ==
    /\ nemit < MaxResponses
    /\ r.error # NoError => ~r.is_final
    /\ chan' = Append(chan, r)
    /\ nemit' = nemit + 1
    /\ UNCHANGED <<delivered, outstanding, running>>
    /\ DFrame

\* one turn of the drain loop: the oldest response is taken and dispatched
Drain ==
    /\ running
    /\ chan # <<>>
    /\ chan' = Tail(chan)
    /\ LET r == Head(chan) IN
        IF IsFatalError(r.error)
        THEN /\ delivered' = [c \in ClientIds |->
                                IF c \in outstanding THEN Append(delivered[c], r)
                                ELSE delivered[c]]
             /\ running' = FALSE
             /\ outstanding' = outstanding
        ELSE /\ delivered' = [delivered EXCEPT ![r.client_id] =
                                IF r.client_id \in outstanding THEN Append(@, r) ELSE @]
             /\ running' = TRUE
             /\ outstanding' = IF ~IsRequestError(r.error) /\ r.is_final
                               THEN outstanding \ {r.client_id}
                               ELSE outstanding
    /\ UNCHANGED nemit
    /\ DFrame

DNext ==
    \/ \E c \in ClientIds : Register(c)
    \/ \E r \in Responses : Emit(r)
    \/ Drain

----------------------------------------------------------------------------
(* Specifications *)

\* the parts not taking part stay as constructed
QIdle == queue = <<>> /\ pc = [c \in Consumers |-> "idle"]
         /\ tmo = [c \in Consumers |-> "None"] /\ item = [c \in Consumers |-> NoItem]
         /\ ret = [c \in Consumers |-> NoRet] /\ snap = [c \in Consumers |-> <<>>]
         /\ putLog = <<>> /\ getLog = <<>> /\ atClose = {}
PIdle == n_workers = 1 /\ futures = <<>> /\ cpc = "idle" /\ cidx = 0 /\ cres = NoRes
         /\ shut = FALSE
SIdle == envFlag = None /\ envAddr = None /\ session = NoSession /\ constructed = {}
AIdle == addrs = NoAddrs
DIdle == DInit

\* threads on one IntraProcessQueue
QSpecInit == QInit /\ PIdle /\ SIdle /\ AIdle /\ DIdle
SpecQueue == QSpecInit /\ [][QNext]_vars

\* a thread that can take a step of the call it is in does take it; nothing
\* obliges a producer to put, a consumer to call, or anyone to close
QFair ==
    /\ \A c \in Consumers : WF_vars(GetReturn(c))
    /\ \A c \in Consumers : WF_vars(GetTimeout(c))
    /\ \A c \in Consumers : WF_vars(PollGet(c))
    /\ \A c \in Consumers : WF_vars(PollPut(c))
    /\ \A c \in Consumers : WF_vars(PollEmpty(c))
LiveQueue == QSpecInit /\ [][QNext]_vars /\ QFair

\* one ProcessPoolExecutorSession, its caller and its worker processes
PSpecInit == PInit /\ QIdle /\ SIdle /\ AIdle /\ DIdle
SpecPool == PSpecInit /\ [][PNext]_vars

\* calls of create_mpi_comm_session under changing environments
SSpecInit == SInit /\ QIdle /\ PIdle /\ AIdle /\ DIdle
SpecSession == SSpecInit /\ [][SNext]_vars

\* workers emitting responses and the coordinator draining the result channel
DSpecInit == DInit /\ QIdle /\ PIdle /\ SIdle /\ AIdle
SpecDrain == DSpecInit /\ [][DNext]_vars

\* constructions of WorkerCommIpcAddrs
ASpecInit == AInit /\ QIdle /\ PIdle /\ SIdle /\ DIdle
SpecAddrs == ASpecInit /\ [][ANext]_vars

----------------------------------------------------------------------------
(* Claims *)

\* only the coordinator has called get or poll
SingleConsumer == pc["aux"] = "idle" /\ ret["aux"] = NoRet

\* the set of the items of a sequence
Range(q) == {q[i] : i \in 1 .. Len(q)}

\* the item put earliest among those put and not yet returned by a get
OldestUnconsumed ==
    LET U == {i \in 1 .. Len(putLog) : putLog[i] \notin Range(getLog)}
    IN putLog[CHOOSE i \in U : \A j \in U : i <= j]

\* C1: a poll that found an item and returns True, with no other thread touching
\* the queue meanwhile, leaves the queue exactly as it found it (same items, same
\* order), so that later gets return what they would have returned without the poll.
C1_PollRestoresQueue ==
    [][\A c \in Consumers : (PollPut(c) /\ snap[c] # <<>>) => queue' = snap[c]]_vars

\* C2: after any sequence of put, get and poll, a get that returns an item returns
\* the oldest unconsumed item: the one put earliest among those not yet returned.
C2_GetReturnsOldest ==
    [][\A c \in Consumers : GetReturn(c) => getLog'[Len(getLog')] = OldestUnconsumed]_vars

\* C3: close() unblocks a get it found blocked on the empty queue: from then on the
\* get can terminate (return or raise) without waiting for a put.
C3_CloseUnblocksGet ==
    \A c \in atClose : ENABLED (GetReturn(c) \/ GetTimeout(c))

\* C10: with a single consumer calling get and poll and several producers putting,
\* two items put by the same producer are returned by get in the order they were put.
C10_PerProducerOrder ==
    SingleConsumer =>
        \A i, j \in 1 .. Len(getLog) :
            (i < j /\ getLog[i][1] = getLog[j][1]) => getLog[i][2] < getLog[j][2]

\* the futures of call k, as a set of indices
CallSet(k) == {i \in 1 .. Len(futures) : futures[i].call = k}

\* C4: submit_sync has neither returned nor raised while one of the futures it
\* created is unresolved.
C4_AllResolvedBeforeReturn ==
    cres.kind \in {"results", "raised"} =>
        \A i \in CallSet(cres.call) : Resolved(futures[i])

\* C5: once the futures of a call are resolved, every one of the N worker processes
\* has executed the task of that call exactly once.
C5_EveryWorkerExecutesOnce ==
    \A k \in 1 .. NCalls :
        (\A i \in CallSet(k) : Resolved(futures[i])) =>
            \A w \in Workers : Cardinality({i \in CallSet(k) : futures[i].by = w}) = 1

\* C6: submit returns exactly N handles and submit_sync, when no task raises,
\* exactly N results; the call enqueued its task exactly N times.
C6_BroadcastCount ==
    cres.kind \in {"handles", "results"} =>
        /\ Len(cres.vals) = n_workers
        /\ Cardinality(CallSet(cres.call)) = n_workers
        /\ \A i \in CallSet(cres.call) : futures[i].task = cres.task
        /\ cres.kind = "handles" => Range(cres.vals) = CallSet(cres.call)

C6_Witness ==
    /\ n_workers = 3
    /\ cres.kind = "results"
    /\ Len(cres.vals) = 3

\* C7: create_mpi_comm_session decides by the two environment values alone: flag
\* "1" and a non-empty address give a RemoteMpiCommSessionClient bound to that
\* address; any other flag gives an MpiCommSession of n_workers, whatever the
\* address; nothing else is ever constructed.
C7_SessionSelection ==
    [][\A n \in 1 .. MaxWorkers : CreateSession(n) =>
        /\ (envFlag = "1" /\ envAddr \notin {None, ""}) =>
              session' = [kind |-> "RemoteMpiCommSessionClient", addr |-> envAddr,
                          n_workers |-> 0]
        /\ envFlag # "1" =>
              session' = [kind |-> "MpiCommSession", addr |-> None, n_workers |-> n]
        /\ \A o \in constructed' : o.kind \in SessionKinds
        /\ session'.kind \in SessionKinds \cup {"AssertionError"}]_vars

C7_Witness ==
    /\ session.kind = "MpiCommSession"
    /\ session.n_workers = 2
    /\ envFlag # "1"
    /\ envAddr = "ipc:///tmp/a"
    /\ \E o \in constructed : o.kind = "RemoteMpiCommSessionClient" /\ o.addr = "ipc:///tmp/b"

\* C8: with flag "1" and the address missing or empty, create_mpi_comm_session
\* fails (AssertionError) and constructs no session object.
C8_NoAddressFails ==
    [][\A n \in 1 .. MaxWorkers :
        (CreateSession(n) /\ envFlag = "1" /\ envAddr \in {None, ""}) =>
            /\ session'.kind = "AssertionError"
            /\ constructed' = constructed]_vars

C8_Witness ==
    /\ session.kind = "AssertionError"
    /\ envFlag = "1"
    /\ envAddr = ""

\* C9: no WorkerCommIpcAddrs with an empty address exists.
C9_NoEmptyAddress ==
    addrs # NoAddrs =>
        /\ addrs.request_queue_addr # ""
        /\ addrs.request_error_queue_addr # ""
        /\ addrs.result_queue_addr # ""
        /\ addrs.stats_queue_addr # ""
        /\ addrs.kv_cache_events_queue_addr # ""

\* C11: poll never blocks: a poll waiting on the empty queue can return False
\* without any put, with a finite timeout and with the default timeout alike.
C11_PollNeverBlocks ==
    \A c \in Consumers : (pc[c] = "poll_wait" /\ queue = <<>>) => ENABLED PollEmpty(c)

\* C12: shutdown does not wait for in-flight work: whatever the states of the
\* futures (pending, running), a shutdown called by the idle caller can complete.
C12_ShutdownDoesNotWait ==
    cpc = "idle" => ENABLED Shutdown

C12_Witness ==
    /\ shut
    /\ \E i \in 1 .. Len(futures) : futures[i].state = "running"
    /\ \E i \in 1 .. Len(futures) : futures[i].state = "pending"

\* no item occurs twice in a sequence
NoDuplicates(q) == \A i, j \in 1 .. Len(q) : i # j => q[i] # q[j]

\* C13: with a single consumer and concurrent producers every item put is consumed
\* exactly once: get returns no item twice and only items that were put, no item is
\* lost (it is in the queue, held by the poll in progress, or returned by a get),
\* and while no poll is in progress the queue holds exactly the items put and not
\* yet returned by get, each once.
C13_ExactlyOnce ==
    SingleConsumer =>
        /\ NoDuplicates(getLog)
        /\ Range(getLog) \subseteq Range(putLog)
        /\ \A x \in Range(putLog) :
              x \in Range(getLog) \/ x \in Range(queue) \/ x = item["coord"]
        /\ pc["coord"] # "poll_put" =>
              /\ NoDuplicates(queue)
              /\ Range(queue) = Range(putLog) \ Range(getLog)
              /\ Len(queue) = Len(putLog) - Len(getLog)

C13_Witness ==
    /\ SingleConsumer
    /\ {putLog[i][1] : i \in 1 .. Len(putLog)} = Producers
    /\ Len(getLog) = 1
    /\ ret["coord"] = "True"
    /\ pc["coord"] = "idle"
    /\ Len(queue) = 1

\* C14: a get ends in one of two ways. It raises Empty only when it was given a
\* timeout and the queue is empty, and then the queue is left unchanged; otherwise
\* it returns the head of a non-empty queue. A get without timeout never ends with
\* an empty result: it stays blocked until an item is there.
C14_GetTimeoutOrItem ==
    [][\A c \in Consumers : (pc[c] = "get_wait" /\ pc'[c] # "get_wait") =>
          IF ret'[c] = "Empty"
          THEN /\ tmo[c] = "finite"
               /\ queue = <<>>
               /\ queue' = queue
               /\ getLog' = getLog
          ELSE /\ ret'[c] = "item"
               /\ queue # <<>>
               /\ getLog' = Append(getLog, Head(queue))
               /\ queue' = Tail(queue)]_vars

C14_Witness ==
    /\ ret["coord"] = "Empty"
    /\ ret["aux"] = "item"
    /\ queue = <<>>
    /\ Len(getLog) = 1

\* C16: two concurrent polls can race. A poll returns False while an item that was
\* put has not been returned by any get only when another poll has removed an item
\* and not yet put it back; C16_Witness is such a state, reached with one item.
C16_PollRace ==
    [][\A c \in Consumers : (PollEmpty(c) /\ Len(getLog) < Len(putLog)) =>
          \E d \in Consumers \ {c} : pc[d] = "poll_put" /\ item[d] \in Range(putLog)]_vars

C16_Witness ==
    /\ Len(putLog) = 1
    /\ getLog = <<>>
    /\ pc["coord"] = "poll_put"
    /\ item["coord"] = putLog[1]
    /\ queue = <<>>
    /\ pc["aux"] = "poll_wait"
    /\ tmo["aux"] = "finite"
    /\ ENABLED PollEmpty("aux")

\* C18: with a single consumer, after a poll that returned True the consumer's next
\* get finds the queue non-empty: it returns an item and cannot raise Empty.
C18_PollTrueThenGet ==
    (SingleConsumer /\ ret["coord"] = "True" /\ pc["coord"] = "get_wait") =>
        /\ queue # <<>>
        /\ ENABLED GetReturn("coord")
        /\ ~ENABLED GetTimeout("coord")

C18_Witness ==
    /\ SingleConsumer
    /\ ret["coord"] = "True"
    /\ pc["coord"] = "get_wait"
    /\ tmo["coord"] = "finite"
    /\ {putLog[i][1] : i \in 1 .. Len(putLog)} = Producers

\* C17: when submit_sync raises, the exception is that of the lowest-indexed failed
\* future of the call: every future submitted before it returned a result, whatever
\* the later ones did meanwhile. When submit_sync returns, the i-th element of the
\* list is the result of the i-th future of the call.
C17_FirstFailureInOrder ==
    /\ cres.kind = "raised" =>
          /\ cres.vals[1] \in CallSet(cres.call)
          /\ futures[cres.vals[1]].state = "exc"
          /\ \A j \in CallSet(cres.call) : j < cres.vals[1] => futures[j].state = "ok"
    /\ cres.kind = "results" =>
          /\ Len(cres.vals) = Len(CallFutures(cres.call))
          /\ \A i \in 1 .. Len(cres.vals) :
                /\ futures[CallFutures(cres.call)[i]].state = "ok"
                /\ cres.vals[i] = futures[CallFutures(cres.call)[i]].by

C17_Witness ==
    /\ n_workers = 3
    /\ cres.kind = "raised"
    /\ cres.vals[1] = CallFutures(cres.call)[2]
    /\ futures[CallFutures(cres.call)[1]].state = "ok"
    /\ futures[CallFutures(cres.call)[3]].state = "exc"

====
